---- MODULE Spec2Model ----
(***************************************************************************)
(* Model of validator/core.py: validate_data(df, config) applies the rules *)
(* of a YAML config to a table, one rule after the other and, within a     *)
(* rule, one check after the other, appending violations to `errors` and   *)
(* finally building the summary.                                           *)
(*                                                                         *)
(* Cells, boundaries and coerced values are records [k, n, t]:             *)
(*   k = "null"   None / NaN / NaT / pd.NA                                 *)
(*   k = "int"    a Python int n                                           *)
(*   k = "int64"  a numpy int64 n (what iterating an Int64 column yields)  *)
(*   k = "float"  a float, n counts halves (n = 3 is 1.5, n = 4 is 2.0)    *)
(*   k = "str"    the text t                                               *)
(*   k = "date"   a datetime.date, n its year (all dates are January 1st)  *)
(***************************************************************************)
EXTENDS Integers, Sequences, FiniteSets, TLC

VARIABLES df, config, df_local, errors, ruleOf, k, s, pc, report

vars == <<df, config, df_local, errors, ruleOf, k, s, pc, report>>

\* ---- Bounds of the model ------------------------------------------------

MaxRows == 3

MaxRules == 2

\* The runs that check one stage: rows of the table, rules of the config.
MaxCheckRows == 2

MaxCheckRules == 1

\* ---- Values ---------------------------------------------------------------

NullCell == [k |-> "null", n |-> 0, t |-> ""]

IntCell(n) == [k |-> "int", n |-> n, t |-> ""]

Int64Cell(n) == [k |-> "int64", n |-> n, t |-> ""]

FloatCell(h) == [k |-> "float", n |-> h, t |-> ""]

StrCell(t) == [k |-> "str", n |-> 0, t |-> t]

DateCell(y) == [k |-> "date", n |-> y, t |-> ""]

\* pd.isna(val)
IsNa(c) == c.k = "null"

\* The texts of the model, in Python's string order.
TextOrder ==
    <<"-1", "0", "1", "1.5", "1970-01-01", "2", "2019-01-01", "2022-01-01",
      "a@b.com", "abc", "bad@">>

TextRank(t) == CHOOSE i \in 1..Len(TextOrder) : TextOrder[i] = t

\* What float(text) / pd.to_numeric accept, as a number of halves.
NumericTexts == {"1.5", "2"}

TextHalves(t) == IF t = "1.5" THEN 3 ELSE 4

\* What pd.to_datetime parses as a calendar date.
DateTexts == {"2019-01-01", "2022-01-01"}

TextYear(t) == IF t = "2019-01-01" THEN 2019 ELSE 2022

IsNumber(c) == c.k \in {"int", "int64", "float"}

\* The numeric value of a number, in halves.
Halves(c) == IF c.k = "float" THEN c.n ELSE 2 * c.n

\* str(val)
Str(c) ==
    CASE c.k \in {"int", "int64"} -> ToString(c.n)
      [] c.k = "float" -> ToString(c.n \div 2) \o (IF c.n % 2 = 0 THEN ".0" ELSE ".5")
      [] c.k = "date" -> IF c.n = 2019 THEN "2019-01-01"
                         ELSE IF c.n = 2022 THEN "2022-01-01" ELSE "1970-01-01"
      [] c.k = "str" -> c.t
      [] OTHER -> "nan"

\* ---- Helpers: type coercion ----------------------------------------------

\* pd.to_numeric(cell, errors="coerce"): numbers stay, numeric text is parsed,
\* anything else becomes NaN.
ToNumeric(c) ==
    CASE IsNumber(c) -> c
      [] c.k = "str" /\ c.t \in NumericTexts -> FloatCell(TextHalves(c.t))
      [] OTHER -> NullCell

\* pd.to_datetime(cell, errors="coerce"): NaT for what is no date; a number
\* is a count of nanoseconds since the epoch, a moment of 1970-01-01.
ToDatetime(c) ==
    CASE c.k = "date" -> c
      [] c.k = "str" /\ c.t \in DateTexts -> DateCell(TextYear(c.t))
      [] IsNumber(c) -> DateCell(1970)
      [] OTHER -> NullCell

\* .astype("Int64") raises TypeError("cannot safely cast non-equivalent
\* float64 to int64") when some value of the column is not integral.
Int64Raises(col) ==
    \E i \in 1..Len(col) : ~IsNa(ToNumeric(col[i])) /\ Halves(ToNumeric(col[i])) % 2 /= 0

ToInt64(c) == IF IsNa(c) THEN NullCell ELSE Int64Cell(Halves(c) \div 2)

ToFloat(c) == IF IsNa(c) THEN NullCell ELSE FloatCell(Halves(c))

ToStringDtype(c) == IF IsNa(c) THEN NullCell ELSE StrCell(Str(c))

\* _coerce_series_to_type(s, expected), for a column on which it does not raise.
CoerceSeries(col, expected) ==
    CASE expected = "int" -> [i \in 1..Len(col) |-> ToInt64(ToNumeric(col[i]))]
      [] expected = "float" -> [i \in 1..Len(col) |-> ToFloat(ToNumeric(col[i]))]
      [] expected = "string" -> [i \in 1..Len(col) |-> ToStringDtype(col[i])]
      [] expected = "date" -> [i \in 1..Len(col) |-> ToDatetime(col[i])]
      [] OTHER -> col

CoerceRaises(col, expected) == expected = "int" /\ Int64Raises(col)

\* ---- Helpers: violations ---------------------------------------------------

\* The text of a violation: the f-string's fixed part and what it interpolates.
Msg(text, type, val, bound) == [text |-> text, type |-> type, val |-> val, bound |-> bound]

RuleError(col, text) == [column |-> col, error |-> Msg(text, "", NullCell, NullCell)]

RowError(idx, col, msg) == [row |-> idx, column |-> col, error |-> msg]

\* The label of the row at position i: df.index is the default 0-based RangeIndex.
Index(i) == i - 1

RECURSIVE ConcatRows(_, _)
\* perRow[1] \o ... \o perRow[n]: a loop over the rows in index order.
ConcatRows(perRow, n) == IF n = 0 THEN <<>> ELSE ConcatRows(perRow, n - 1) \o perRow[n]

\* One violation for each row of the mask, in index order.
MaskErrors(mask, col, msg) ==
    ConcatRows([i \in DOMAIN mask |-> IF mask[i] THEN <<RowError(Index(i), col, msg)>> ELSE <<>>],
               Len(mask))

\* ---- Helpers: the checks -------------------------------------------------

\* TypeFailMask without `& s.notna()`.
TypeFailMaskAnyNull(raw, coerced) == [i \in DOMAIN raw |-> IsNa(coerced[i])]

\* coerced.isna() & s.notna()
TypeFailMask(raw, coerced) == [i \in DOMAIN raw |-> IsNa(coerced[i]) /\ ~IsNa(raw[i])]

TypeErrors(raw, coerced, col, expected) ==
    MaskErrors(TypeFailMask(raw, coerced), col,
               Msg("Type mismatch: expected", expected, NullCell, NullCell))

\* s[s.isna()].index
NotNullErrors(col_s, col) ==
    MaskErrors([i \in DOMAIN col_s |-> IsNa(col_s[i])], col,
               Msg("Null value not allowed", "", NullCell, NullCell))

\* Duplicated with keep="first": the first occurrence is not marked.
DuplicatedKeepFirst(column) ==
    [i \in DOMAIN column |-> \E j \in DOMAIN column : j < i /\ column[j] = column[i]]

\* df_local.duplicated(subset=[col], keep=False): every row whose value occurs
\* in another row; missing values are equal to each other.
Duplicated(column) ==
    [i \in DOMAIN column |-> \E j \in DOMAIN column : j /= i /\ column[j] = column[i]]

UniqueErrors(column, col) ==
    MaskErrors(Duplicated(column), col, Msg("Duplicate value found", "", NullCell, NullCell))

\* _maybe_cast(boundary, sample_value): [raised, v]. For a date sample a
\* boundary that is no date is cast to NaT; for an int or float sample
\* float(boundary) raises ValueError on text that is no number.
MaybeCast(boundary, sample) ==
    CASE IsNa(sample) -> [raised |-> FALSE, v |-> boundary]
      [] sample.k = "date" -> [raised |-> FALSE, v |-> ToDatetime(boundary)]
      [] sample.k \in {"int", "float"} ->
            IF IsNa(ToNumeric(boundary)) THEN [raised |-> TRUE, v |-> NullCell]
            ELSE [raised |-> FALSE, v |-> ToFloat(ToNumeric(boundary))]
      [] OTHER -> [raised |-> FALSE, v |-> boundary]

\* Python orders numbers with numbers, text with text and dates with dates;
\* any other pair, a date and NaT included, raises TypeError.
Comparable(a, b) ==
    \/ IsNumber(a) /\ IsNumber(b)
    \/ a.k = "str" /\ b.k = "str"
    \/ a.k = "date" /\ b.k = "date"

\* Less as `<=`.
LessOrEqual(a, b) ==
    CASE IsNumber(a) -> Halves(a) <= Halves(b)
      [] a.k = "str" -> TextRank(a.t) <= TextRank(b.t)
      [] OTHER -> a.n <= b.n

\* a < b, for a comparable pair.
Less(a, b) ==
    CASE IsNumber(a) -> Halves(a) < Halves(b)
      [] a.k = "str" -> TextRank(a.t) < TextRank(b.t)
      [] OTHER -> a.n < b.n

\* `val < _maybe_cast(min_v, val)` (or `>` for max) raises.
BoundRaises(val, bound) ==
    MaybeCast(bound, val).raised \/ ~Comparable(val, MaybeCast(bound, val).v)

\* CellRangeErrors testing max before min.
CellRangeErrorsMaxFirst(idx, val, col, min_v, max_v) ==
    LET below == RowError(idx, col, Msg("Value below min", "", val, min_v))
        above == RowError(idx, col, Msg("Value above max", "", val, max_v))
        failed == RowError(idx, col,
                           Msg("Range check failed (incomparable types)", "", NullCell, NullCell))
        minPart == IF ~IsNa(min_v) /\ ~BoundRaises(val, min_v)
                      /\ Less(val, MaybeCast(min_v, val).v)
                   THEN <<below>> ELSE <<>>
        maxPart == IF ~IsNa(max_v) /\ ~BoundRaises(val, max_v)
                      /\ Less(MaybeCast(max_v, val).v, val)
                   THEN <<above>> ELSE <<>>
    IN  IF IsNa(val) THEN <<>>
        ELSE IF ~IsNa(max_v) /\ BoundRaises(val, max_v) THEN <<failed>>
        ELSE IF ~IsNa(min_v) /\ BoundRaises(val, min_v) THEN maxPart \o <<failed>>
        ELSE maxPart \o minPart

\* The body of the range loop for one cell: the try block runs the min test,
\* then the max test; an exception in either ends the block and appends
\* the "incomparable" violation after what the block already appended.
CellRangeErrors(idx, val, col, min_v, max_v) ==
    LET below == RowError(idx, col, Msg("Value below min", "", val, min_v))
        above == RowError(idx, col, Msg("Value above max", "", val, max_v))
        failed == RowError(idx, col,
                           Msg("Range check failed (incomparable types)", "", NullCell, NullCell))
        minPart == IF ~IsNa(min_v) /\ ~BoundRaises(val, min_v)
                      /\ Less(val, MaybeCast(min_v, val).v)
                   THEN <<below>> ELSE <<>>
        maxPart == IF ~IsNa(max_v) /\ ~BoundRaises(val, max_v)
                      /\ Less(MaybeCast(max_v, val).v, val)
                   THEN <<above>> ELSE <<>>
    IN  IF IsNa(val) THEN <<>>
        ELSE IF ~IsNa(min_v) /\ BoundRaises(val, min_v) THEN <<failed>>
        ELSE IF ~IsNa(max_v) /\ BoundRaises(val, max_v) THEN minPart \o <<failed>>
        ELSE minPart \o maxPart

RangeErrors(col_s, col, min_v, max_v) ==
    ConcatRows([i \in DOMAIN col_s |-> CellRangeErrors(Index(i), col_s[i], col, min_v, max_v)],
               Len(col_s))

\* The patterns of the model; re.compile raises re.error on the second one.
EmailPattern == "^[^@\\s]+@[^@\\s]+\\.[^@\\s]+$"

BadPattern == "("

\* The rule has no "regex" key.
NoRegex == "<no regex key>"

CompileRaises(pattern) == pattern = BadPattern

\* pattern.fullmatch(text) is not None: of the texts of the model, the email
\* pattern matches "a@b.com" alone.
FullMatch(pattern, text) ==
    IF pattern = EmailPattern THEN text = "a@b.com" ELSE FALSE

\* _regex_mismatch(val, pattern)
RegexMismatch(val, pattern) == IF IsNa(val) THEN FALSE ELSE ~FullMatch(pattern, Str(val))

RegexErrors(col_s, col, pattern) ==
    ConcatRows([i \in DOMAIN col_s |->
                   IF RegexMismatch(col_s[i], pattern)
                   THEN <<RowError(Index(i), col, Msg("Regex mismatch:", "", col_s[i], NullCell))>>
                   ELSE <<>>],
               Len(col_s))

\* ---- Inputs ----------------------------------------------------------------

\* The tables have one column, "a"; rules also name the column "ghost".
Tables(cells, maxRows) ==
    UNION {{[a |-> col] : col \in [1..n -> cells]} : n \in 0..maxRows}

\* len(df)
NRows(table) == Len(table[CHOOSE c \in DOMAIN table : TRUE])

\* A rule of the config. An absent key is "" for column and type (rule.get
\* gives None, which is as false as ""), FALSE for not_null and unique,
\* NullCell for min and max, NoRegex for regex.
Rule(col, type, nn, uq, min_v, max_v, regex) ==
    [column |-> col, type |-> type, not_null |-> nn, unique |-> uq,
     min |-> min_v, max |-> max_v, regex |-> regex]

RECURSIVE SeqsUpTo(_, _)
\* The sequences over S of length at most n.
SeqsUpTo(S, n) ==
    IF n = 0 THEN {<<>>}
    ELSE SeqsUpTo(S, n - 1) \cup {Append(q, x) : q \in {r \in SeqsUpTo(S, n - 1) : Len(r) = n - 1}, x \in S}

\* ---- validate_data ------------------------------------------------------------

\* The state at line 57: errors = [], rules = config["rules"], df_local = df.copy().
InitWith(tables, rulesets) ==
    /\ df \in tables
    /\ config \in rulesets
    /\ df_local = df
    /\ errors = <<>>
    /\ ruleOf = <<>>
    /\ k = 1
    /\ s = <<>>
    /\ pc = "rule"
    /\ report = <<>>

\* errors.append(e) for each e of es, by the rule at position k.
Appended(es) ==
    /\ errors' = errors \o es
    /\ ruleOf' = ruleOf \o [i \in 1..Len(es) |-> k]

\* `continue`, or the end of the loop body.
NextRule ==
    /\ k' = k + 1
    /\ pc' = "rule"

\* BeginRule with `break` in place of `continue`.
BeginRuleBreak ==
    /\ pc = "rule"
    /\ k <= Len(config)
    /\ LET col == config[k].column
       IN  IF col = ""
           THEN /\ Appended(<<RuleError("-", "Rule missing 'column' key")>>)
                /\ k' = Len(config) + 1 /\ pc' = "rule" /\ s' = s
           ELSE IF col \notin DOMAIN df_local
           THEN /\ Appended(<<RuleError(col, "Column not found in dataset")>>)
                /\ k' = Len(config) + 1 /\ pc' = "rule" /\ s' = s
           ELSE /\ s' = df_local[col]
                /\ pc' = "type"
                /\ UNCHANGED <<errors, ruleOf, k>>
    /\ UNCHANGED <<df, config, df_local, report>>

\* Lines 57-68: the head of the loop body.
BeginRule ==
    /\ pc = "rule"
    /\ k <= Len(config)
    /\ LET col == config[k].column
       IN  IF col = ""
           THEN Appended(<<RuleError("-", "Rule missing 'column' key")>>) /\ NextRule /\ s' = s
           ELSE IF col \notin DOMAIN df_local
           THEN Appended(<<RuleError(col, "Column not found in dataset")>>) /\ NextRule /\ s' = s
           ELSE /\ s' = df_local[col]
                /\ pc' = "type"
                /\ UNCHANGED <<errors, ruleOf, k>>
    /\ UNCHANGED <<df, config, df_local, report>>

\* TypeCoercion writing the coerced column back into the working table.
TypeCoercionInPlace ==
    /\ pc = "type"
    /\ LET expected == config[k].type
       IN  IF expected = ""
           THEN pc' = "not_null" /\ UNCHANGED <<errors, ruleOf, s, df_local>>
           ELSE IF CoerceRaises(s, expected)
           THEN pc' = "fatal" /\ UNCHANGED <<errors, ruleOf, s, df_local>>
           ELSE /\ Appended(TypeErrors(s, CoerceSeries(s, expected), config[k].column, expected))
                /\ s' = CoerceSeries(s, expected)
                /\ df_local' = [df_local EXCEPT ![config[k].column] = CoerceSeries(s, expected)]
                /\ pc' = "not_null"
    /\ UNCHANGED <<df, config, k, report>>

\* Lines 70-79: 1) type coercion.
TypeCoercion ==
    /\ pc = "type"
    /\ LET expected == config[k].type
       IN  IF expected = ""
           THEN pc' = "not_null" /\ UNCHANGED <<errors, ruleOf, s>>
           ELSE IF CoerceRaises(s, expected)
           THEN pc' = "fatal" /\ UNCHANGED <<errors, ruleOf, s>>
           ELSE /\ Appended(TypeErrors(s, CoerceSeries(s, expected), config[k].column, expected))
                /\ s' = CoerceSeries(s, expected)
                /\ pc' = "not_null"
    /\ UNCHANGED <<df, config, df_local, k, report>>

\* Lines 81-85: 2) not null.
NotNull ==
    /\ pc = "not_null"
    /\ IF config[k].not_null
       THEN Appended(NotNullErrors(s, config[k].column))
       ELSE UNCHANGED <<errors, ruleOf>>
    /\ pc' = "unique"
    /\ UNCHANGED <<df, config, df_local, k, s, report>>

\* Lines 87-91: 3) unique.
Unique ==
    /\ pc = "unique"
    /\ IF config[k].unique
       THEN Appended(UniqueErrors(df_local[config[k].column], config[k].column))
       ELSE UNCHANGED <<errors, ruleOf>>
    /\ pc' = "range"
    /\ UNCHANGED <<df, config, df_local, k, s, report>>

\* Lines 93-110: 4) range checks.
RangeCheck ==
    /\ pc = "range"
    /\ IF ~IsNa(config[k].min) \/ ~IsNa(config[k].max)
       THEN Appended(RangeErrors(s, config[k].column, config[k].min, config[k].max))
       ELSE UNCHANGED <<errors, ruleOf>>
    /\ pc' = "regex"
    /\ UNCHANGED <<df, config, df_local, k, s, report>>

\* Regex skipping a pattern that does not compile.
RegexSkipsInvalid ==
    /\ pc = "regex"
    /\ IF config[k].regex = NoRegex \/ CompileRaises(config[k].regex)
       THEN NextRule /\ UNCHANGED <<errors, ruleOf>>
       ELSE Appended(RegexErrors(s, config[k].column, config[k].regex)) /\ NextRule
    /\ UNCHANGED <<df, config, df_local, s, report>>

\* Lines 112-117: 5) regex; re.compile raises on an invalid pattern.
Regex ==
    /\ pc = "regex"
    /\ IF config[k].regex = NoRegex
       THEN NextRule /\ UNCHANGED <<errors, ruleOf>>
       ELSE IF CompileRaises(config[k].regex)
       THEN pc' = "fatal" /\ UNCHANGED <<errors, ruleOf, k>>
       ELSE Appended(RegexErrors(s, config[k].column, config[k].regex)) /\ NextRule
    /\ UNCHANGED <<df, config, df_local, s, report>>

\* {e["row"] for e in errors if "row" in e}
FailedRows(es) == {es[i].row : i \in {j \in 1..Len(es) : "row" \in DOMAIN es[j]}}

\* Summary counting the violations with a row, not the distinct rows.
SummaryPerViolation(table, es) ==
    [rows_checked |-> NRows(table),
     rows_failed |-> Cardinality({j \in 1..Len(es) : "row" \in DOMAIN es[j]}),
     validation_passed |-> Len(es) = 0]

\* Lines 119-128: build the summary and return the report.
Summary(table, es) ==
    [rows_checked |-> NRows(table),
     rows_failed |-> Cardinality(FailedRows(es)),
     validation_passed |-> Len(es) = 0]

BuildSummary ==
    /\ pc = "rule"
    /\ k > Len(config)
    /\ report' = [summary |-> Summary(df_local, errors), errors |-> errors]
    /\ pc' = "done"
    /\ UNCHANGED <<df, config, df_local, errors, ruleOf, k, s>>

Next ==
    \/ BeginRule
    \/ TypeCoercion
    \/ NotNull
    \/ Unique
    \/ RangeCheck
    \/ Regex
    \/ BuildSummary

\* ---- The runs checked -------------------------------------------------------

\* The whole loop: rules without a column key, naming the missing column
\* "ghost" or the column "a", with a regex alone, a type and not_null, every
\* check, or a pattern that does not compile.
Cells == {NullCell, IntCell(1), StrCell("a@b.com")}

Profiles ==
    {Rule("", "", FALSE, FALSE, NullCell, NullCell, EmailPattern),
     Rule("", "int", TRUE, FALSE, NullCell, NullCell, NoRegex),
     Rule("", "int", TRUE, TRUE, IntCell(2), IntCell(0), EmailPattern),
     Rule("", "", FALSE, FALSE, NullCell, NullCell, BadPattern)}

Rules == {[p EXCEPT !.column = c] : p \in Profiles, c \in {"", "a", "ghost"}}

Init == InitWith(Tables(Cells, MaxRows), SeqsUpTo(Rules, MaxRules))

Spec == Init /\ [][Next]_vars

\* The type coercion and the not-null check, on numbers, text and nulls.
TypeCells == {NullCell, IntCell(1), FloatCell(3), StrCell("abc"), StrCell("2019-01-01")}

TypeRules ==
    {Rule("a", ty, nn, FALSE, NullCell, NullCell, NoRegex) :
        ty \in {"int", "float", "string", "date", "zzz"}, nn \in BOOLEAN}

InitType == InitWith(Tables(TypeCells, MaxCheckRows), SeqsUpTo(TypeRules, MaxCheckRules))

SpecType == InitType /\ [][Next]_vars

\* The uniqueness check, with and without a type, on values that are equal
\* only once coerced (2 and "2").
UniqueCells == {NullCell, IntCell(1), IntCell(2), StrCell("2")}

UniqueRules ==
    {Rule("a", ty, FALSE, uq, NullCell, NullCell, NoRegex) :
        ty \in {"", "int", "string", "date"}, uq \in BOOLEAN}

InitUnique == InitWith(Tables(UniqueCells, MaxRows), SeqsUpTo(UniqueRules, MaxCheckRules))

SpecUnique == InitUnique /\ [][Next]_vars

\* The range check, on the raw column and on the column coerced to int:
\* numbers and text against numeric and text boundaries.
RangeCells == {NullCell, IntCell(0), IntCell(1), IntCell(2), StrCell("abc")}

Boundaries == {NullCell, IntCell(0), IntCell(2), StrCell("abc")}

RangeRules ==
    {Rule("a", ty, FALSE, FALSE, min_v, max_v, NoRegex) :
        ty \in {"", "int"}, min_v \in Boundaries, max_v \in Boundaries}

InitRange == InitWith(Tables(RangeCells, MaxCheckRows), SeqsUpTo(RangeRules, MaxCheckRules))

SpecRange == InitRange /\ [][Next]_vars

\* ---- Reference: one rule evaluated alone on a table ----------------------------

\* The rule's loop body raises on the table.
RuleRaises(table, rule) ==
    /\ rule.column /= ""
    /\ rule.column \in DOMAIN table
    /\ \/ rule.type /= "" /\ CoerceRaises(table[rule.column], rule.type)
       \/ rule.regex /= NoRegex /\ CompileRaises(rule.regex)

\* The column the checks after the type coercion see.
Coerced(table, rule) ==
    IF rule.type = "" THEN table[rule.column] ELSE CoerceSeries(table[rule.column], rule.type)

\* What each check of the rule appends, when the rule's column exists and
\* the rule does not raise.
StageErrors(table, rule, stage) ==
    LET col == rule.column
    IN  CASE stage = 1 ->
                IF rule.type = "" THEN <<>>
                ELSE TypeErrors(table[col], Coerced(table, rule), col, rule.type)
          [] stage = 2 -> IF rule.not_null THEN NotNullErrors(Coerced(table, rule), col) ELSE <<>>
          [] stage = 3 -> IF rule.unique THEN UniqueErrors(table[col], col) ELSE <<>>
          [] stage = 4 ->
                IF IsNa(rule.min) /\ IsNa(rule.max) THEN <<>>
                ELSE RangeErrors(Coerced(table, rule), col, rule.min, rule.max)
          [] OTHER ->
                IF rule.regex = NoRegex THEN <<>>
                ELSE RegexErrors(Coerced(table, rule), col, rule.regex)

\* The violations of the rule on the table, when it does not raise.
RuleViolations(table, rule) ==
    IF rule.column = "" THEN <<RuleError("-", "Rule missing 'column' key")>>
    ELSE IF rule.column \notin DOMAIN table
    THEN <<RuleError(rule.column, "Column not found in dataset")>>
    ELSE StageErrors(table, rule, 1) \o StageErrors(table, rule, 2) \o StageErrors(table, rule, 3)
         \o StageErrors(table, rule, 4) \o StageErrors(table, rule, 5)

\* ---- What the claims speak of --------------------------------------------------

\* The positions of `errors` the rule at position i appended.
Positions(i) == {j \in 1..Len(errors) : ruleOf[j] = i}

\* The violations the rule at position i appended, in order.
Segment(i) ==
    ConcatRows([j \in 1..Len(errors) |-> IF ruleOf[j] = i THEN <<errors[j]>> ELSE <<>>],
               Len(errors))

\* The loop is past the rule at position i.
Completed(i) == i < k

HasRow(e) == "row" \in DOMAIN e

\* The check a violation comes from, by its text: 0 for a violation of the
\* rule itself, 1 type, 2 not-null, 3 unique, 4 range, 5 regex.
StageOf(e) ==
    CASE e.error.text = "Type mismatch: expected" -> 1
      [] e.error.text = "Null value not allowed" -> 2
      [] e.error.text = "Duplicate value found" -> 3
      [] e.error.text \in {"Value below min", "Value above max",
                           "Range check failed (incomparable types)"} -> 4
      [] e.error.text = "Regex mismatch:" -> 5
      [] OTHER -> 0

ColumnMissing(rule) == rule.column = "" \/ rule.column \notin DOMAIN df

\* ---- C1 ----------------------------------------------------------------------

\* C1: the summary of a returned report is determined by the row count of the
\* caller's table and the violation list: rows_checked is the row count,
\* rows_failed the number of distinct rows among the violations with a row,
\* validation_passed holds iff there is no violation; only row-less
\* violations give rows_failed = 0 and validation_passed = false.
C1_Summary ==
    pc = "done" =>
        /\ report.errors = errors
        /\ report.summary.rows_checked = NRows(df)
        /\ report.summary.rows_failed =
              Cardinality({r \in 0..(NRows(df) - 1) :
                              \E j \in 1..Len(errors) : HasRow(errors[j]) /\ errors[j].row = r})
        /\ report.summary.validation_passed = (errors = <<>>)
        /\ (errors /= <<>> /\ \A j \in 1..Len(errors) : ~HasRow(errors[j]))
              => (report.summary.rows_failed = 0 /\ ~report.summary.validation_passed)

\* A report with a row-less violation and a row flagged more than once.
C1_Witness ==
    /\ pc = "done"
    /\ \E j \in 1..Len(errors) : ~HasRow(errors[j])
    /\ \E i, j \in 1..Len(errors) :
          i /= j /\ HasRow(errors[i]) /\ HasRow(errors[j]) /\ errors[i].row = errors[j].row
    /\ report.summary.rows_failed = 2

\* ---- C2 ----------------------------------------------------------------------

\* The one violation of a rule without a column key, or naming a column the
\* table does not have.
MissingColumnError(rule) ==
    IF rule.column = ""
    THEN [column |-> "-",
          error |-> [text |-> "Rule missing 'column' key", type |-> "",
                     val |-> NullCell, bound |-> NullCell]]
    ELSE [column |-> rule.column,
          error |-> [text |-> "Column not found in dataset", type |-> "",
                     val |-> NullCell, bound |-> NullCell]]

\* C2: a rule whose column key is empty or whose column is not in the table
\* contributes exactly one violation, without a row, whatever checks it
\* configures, none of which runs; every later rule is still evaluated.
C2_MissingColumn ==
    \A i \in 1..Len(config) :
        (Completed(i) /\ ColumnMissing(config[i])) =>
            /\ Cardinality(Positions(i)) = 1
            /\ \A j \in Positions(i) : ~HasRow(errors[j]) /\ errors[j] = MissingColumnError(config[i])
            /\ pc /= "fatal" => k > i
            /\ pc = "done" =>
                  \A j \in (i + 1)..Len(config) : Segment(j) = RuleViolations(df, config[j])

\* A report where a rule with checks configured misses its column and a later
\* rule flagged a row.
C2_Witness ==
    /\ pc = "done"
    /\ \E i, j \in 1..Len(config) :
          /\ i < j
          /\ ColumnMissing(config[i])
          /\ config[i].type /= "" /\ config[i].not_null /\ config[i].unique
          /\ ~IsNa(config[i].min) /\ config[i].regex /= NoRegex
          /\ \E p \in Positions(j) : HasRow(errors[p])

\* ---- C5 ----------------------------------------------------------------------

\* C5: if any rule of the ruleset carries an invalid regex pattern, no report
\* is returned, wherever the rule stands and whether or not its column exists.
C5_InvalidRegexAborts ==
    (\E i \in 1..Len(config) : config[i].regex /= NoRegex /\ CompileRaises(config[i].regex))
        => pc /= "done"

\* C5, amended: if a rule whose column exists in the table carries an invalid
\* regex pattern, no report is returned, wherever the rule stands; a rule
\* with an invalid pattern that the loop passes has no column key or names a
\* column the table does not have, and contributes its one violation.
C5_InvalidRegexOfExistingColumnAborts ==
    /\ (\E i \in 1..Len(config) :
            /\ config[i].regex /= NoRegex /\ CompileRaises(config[i].regex)
            /\ ~ColumnMissing(config[i]))
          => pc /= "done"
    /\ \A i \in 1..Len(config) :
          (Completed(i) /\ config[i].regex /= NoRegex /\ CompileRaises(config[i].regex)) =>
              /\ ColumnMissing(config[i])
              /\ Segment(i) = <<MissingColumnError(config[i])>>

\* The run aborted at its second rule, on the pattern, after the first rule
\* had appended violations.
C5_Witness ==
    /\ pc = "fatal"
    /\ k = 2
    /\ config[k].regex = BadPattern
    /\ \E j \in Positions(1) : HasRow(errors[j])

\* ---- C8 ----------------------------------------------------------------------

\* C8: the violations are ordered by rule, then by check in the order type,
\* not-null, unique, range, regex, then by row, and for one cell of the range
\* check below-min comes before above-max; every configured check of a rule
\* runs even when an earlier check of the rule produced violations.
C8_Order ==
    /\ \A a, b \in 1..Len(errors) :
          a < b =>
              /\ ruleOf[a] <= ruleOf[b]
              /\ ruleOf[a] = ruleOf[b] => StageOf(errors[a]) <= StageOf(errors[b])
              /\ (ruleOf[a] = ruleOf[b] /\ StageOf(errors[a]) = StageOf(errors[b])
                    /\ HasRow(errors[a]) /\ HasRow(errors[b]))
                    => /\ errors[a].row <= errors[b].row
                       /\ errors[a].row = errors[b].row
                             => ~(/\ errors[a].error.text = "Value above max"
                                  /\ errors[b].error.text = "Value below min")
    /\ \A i \in 1..Len(config) :
          (Completed(i) /\ ~ColumnMissing(config[i])) =>
              \A st \in 1..5 :
                  StageErrors(df, config[i], st) /= <<>>
                      => \E j \in Positions(i) : StageOf(errors[j]) = st

\* A report in which one rule has violations of all five checks, and one
\* cell is both below min and above max.
C8_Witness ==
    /\ pc = "done"
    /\ \E i \in 1..Len(config) :
          /\ \A st \in 1..5 : \E j \in Positions(i) : StageOf(errors[j]) = st
          /\ \E a, b \in Positions(i) :
                /\ errors[a].error.text = "Value below min"
                /\ errors[b].error.text = "Value above max"
                /\ errors[a].row = errors[b].row

\* ---- C10 ---------------------------------------------------------------------

RECURSIVE RunErrors(_, _)
\* The violations of the rules evaluated one after the other, each alone.
RunErrors(table, rules) ==
    IF rules = <<>> THEN <<>>
    ELSE RuleViolations(table, Head(rules)) \o RunErrors(table, Tail(rules))

Orders(n) == {f \in [1..n -> 1..n] : \A a, b \in 1..n : f[a] = f[b] => a = b}

Occurrences(es, e) == Cardinality({j \in 1..Len(es) : es[j] = e})

SameMultiset(es, fs) ==
    /\ Len(es) = Len(fs)
    /\ \A j \in 1..Len(es) : Occurrences(es, es[j]) = Occurrences(fs, es[j])

\* C10: what a rule contributes depends on the table and the rule alone: the
\* working table stays equal to the caller's, each rule's violations are those
\* of the rule evaluated alone on the caller's table, and a permuted ruleset
\* gives the same multiset of violations and the same summary.
C10_Independent ==
    /\ df_local = df
    /\ pc = "type" => s = df[config[k].column]
    /\ \A i \in 1..Len(config) : Completed(i) => Segment(i) = RuleViolations(df, config[i])
    /\ pc = "fatal" => RuleRaises(df, config[k])
    /\ pc = "done" =>
          \A f \in Orders(Len(config)) :
              LET permuted == RunErrors(df, [i \in 1..Len(config) |-> config[f[i]]])
              IN  /\ SameMultiset(errors, permuted)
                  /\ Summary(df, permuted) = report.summary

\* A report of two rules on the same column: the first coerced it and flagged
\* a cell, and the second flagged the same cell for its type again.
C10_Witness ==
    /\ pc = "done"
    /\ Len(config) = 2
    /\ config[1].column = config[2].column
    /\ \E a \in Positions(1), b \in Positions(2) :
          /\ StageOf(errors[a]) = 1
          /\ StageOf(errors[b]) = 1
          /\ errors[a].row = errors[b].row

\* ---- C3 ----------------------------------------------------------------------

\* The violations with the given text that rule i appended for row r.
RowCount(i, r, text) ==
    Cardinality({j \in Positions(i) :
                    HasRow(errors[j]) /\ errors[j].row = r /\ errors[j].error.text = text})

\* C3: with unique set, a row receives "Duplicate value found" iff its raw
\* value, null included, also occurs in another row; every participant of a
\* duplicate group is flagged, whatever the rule's type.
C3_Unique ==
    \A i \in 1..Len(config) :
        (Completed(i) /\ ~ColumnMissing(config[i]) /\ config[i].unique) =>
            \A r \in 1..NRows(df) :
                RowCount(i, r - 1, "Duplicate value found") =
                    IF \E q \in 1..NRows(df) : q /= r /\ df[config[i].column][q] = df[config[i].column][r]
                    THEN 1 ELSE 0

\* A report of a typed unique rule: two null cells flagged, the first
\* occurrence included, next to a row that is not.
C3_Witness ==
    /\ pc = "done"
    /\ Len(config) = 1
    /\ config[1].unique /\ config[1].type = "int"
    /\ NRows(df) = 3
    /\ IsNa(df.a[1]) /\ IsNa(df.a[2]) /\ ~IsNa(df.a[3])
    /\ RowCount(1, 0, "Duplicate value found") = 1
    /\ RowCount(1, 1, "Duplicate value found") = 1
    /\ RowCount(1, 2, "Duplicate value found") = 0

\* ---- C4 ----------------------------------------------------------------------

IsInt(c) == c.k = "int"

\* C4: for a number v and numeric min and max, "below min" iff v < min and
\* "above max" iff v > max; v = min and v = max give nothing, min > v > max
\* gives both, a null cell gives nothing.
C4_RangeInclusive ==
    \A i \in 1..Len(config) :
        (/\ Completed(i)
         /\ ~ColumnMissing(config[i])
         /\ IsInt(config[i].min) \/ IsNa(config[i].min)
         /\ IsInt(config[i].max) \/ IsNa(config[i].max)) =>
            \A r \in 1..NRows(df) :
                LET v == Coerced(df, config[i])[r]
                IN  /\ IsNumber(v) =>
                          /\ RowCount(i, r - 1, "Value below min") =
                                IF IsInt(config[i].min) /\ Halves(v) < 2 * config[i].min.n
                                THEN 1 ELSE 0
                          /\ RowCount(i, r - 1, "Value above max") =
                                IF IsInt(config[i].max) /\ Halves(v) > 2 * config[i].max.n
                                THEN 1 ELSE 0
                          /\ RowCount(i, r - 1, "Range check failed (incomparable types)") = 0
                    /\ IsNa(v) =>
                          \A j \in Positions(i) :
                              (HasRow(errors[j]) /\ errors[j].row = r - 1) => StageOf(errors[j]) /= 4

\* A report without violation for cells equal to min and to max.
C4_Witness ==
    /\ pc = "done"
    /\ Len(config) = 1
    /\ config[1].min = IntCell(0) /\ config[1].max = IntCell(2)
    /\ df.a = <<IntCell(0), IntCell(2)>>
    /\ errors = <<>>

\* ---- C6 ----------------------------------------------------------------------

\* C6: coercion failures never abort the run, which only an invalid regex
\* pattern ends without a report: under type int a non-null cell that is a
\* non-integral number, or no number at all, receives "Type mismatch:
\* expected int" at its row.
C6_CoercionNeverAborts ==
    /\ pc = "fatal" => (config[k].regex /= NoRegex /\ CompileRaises(config[k].regex))
    /\ \A i \in 1..Len(config) :
          (Completed(i) /\ ~ColumnMissing(config[i]) /\ config[i].type = "int") =>
              \A r \in 1..NRows(df) :
                  LET raw == df[config[i].column][r]
                  IN  (~IsNa(raw) /\ (IsNa(ToNumeric(raw)) \/ Halves(ToNumeric(raw)) % 2 /= 0))
                          => RowCount(i, r - 1, "Type mismatch: expected") = 1

\* ---- C7 ----------------------------------------------------------------------

KnownTypes == {"int", "float", "string", "date"}

\* Rule i is past its type coercion.
Coercion_Done(i) == Completed(i) \/ (i = k /\ pc \in {"not_null", "unique", "range", "regex"})

\* Rule i is past its not-null check.
NotNull_Done(i) == Completed(i) \/ (i = k /\ pc \in {"unique", "range", "regex"})

\* C7: with a type, a row receives "Type mismatch: expected <type>" iff its
\* raw cell is non-null and its coerced value is null, never for a null raw
\* cell nor for an unknown type; with not_null also set, a coercion-failed
\* row receives one Type mismatch and then one "Null value not allowed", a
\* row whose raw cell is null only the latter.
C7_TypeMismatch ==
    \A i \in 1..Len(config) :
        (~ColumnMissing(config[i]) /\ config[i].type /= "") =>
            \A r \in 1..NRows(df) :
                LET raw == df[config[i].column][r]
                    coerced == Coerced(df, config[i])[r]
                    failed == ~IsNa(raw) /\ IsNa(coerced)
                    tm == {j \in Positions(i) : errors[j] =
                              [row |-> r - 1, column |-> config[i].column,
                               error |-> [text |-> "Type mismatch: expected",
                                          type |-> config[i].type,
                                          val |-> NullCell, bound |-> NullCell]]}
                    nn == {j \in Positions(i) :
                              /\ HasRow(errors[j]) /\ errors[j].row = r - 1
                              /\ errors[j].error.text = "Null value not allowed"}
                IN  /\ Coercion_Done(i) =>
                          /\ Cardinality(tm) = IF failed THEN 1 ELSE 0
                          /\ RowCount(i, r - 1, "Type mismatch: expected") = Cardinality(tm)
                          /\ IsNa(raw) => tm = {}
                          /\ config[i].type \notin KnownTypes => tm = {}
                    /\ (NotNull_Done(i) /\ config[i].not_null) =>
                          /\ Cardinality(nn) = IF failed \/ IsNa(raw) THEN 1 ELSE 0
                          /\ \A a \in tm, b \in nn : a < b
                    /\ (NotNull_Done(i) /\ ~config[i].not_null) => nn = {}

\* A report of an int rule with not_null: a text cell with Type mismatch and
\* then Null value not allowed, a null cell with the latter only.
C7_Witness ==
    /\ pc = "done"
    /\ Len(config) = 1
    /\ config[1].type = "int" /\ config[1].not_null
    /\ df.a = <<StrCell("abc"), NullCell>>
    /\ RowCount(1, 0, "Type mismatch: expected") = 1
    /\ RowCount(1, 0, "Null value not allowed") = 1
    /\ RowCount(1, 1, "Type mismatch: expected") = 0
    /\ RowCount(1, 1, "Null value not allowed") = 1

\* ---- C9 ----------------------------------------------------------------------

\* C9: a non-null cell for which the cast of a boundary or the comparison
\* with it cannot be performed receives exactly one "Range check failed
\* (incomparable types)" and neither "below min" nor "above max", also when
\* only one of the two boundaries is incomparable.
C9_IncomparableOnly ==
    \A i \in 1..Len(config) :
        (Completed(i) /\ ~ColumnMissing(config[i])) =>
            \A r \in 1..NRows(df) :
                LET v == Coerced(df, config[i])[r]
                IN  (/\ ~IsNa(v)
                     /\ \/ ~IsNa(config[i].min) /\ BoundRaises(v, config[i].min)
                        \/ ~IsNa(config[i].max) /\ BoundRaises(v, config[i].max)) =>
                        /\ RowCount(i, r - 1, "Range check failed (incomparable types)") = 1
                        /\ RowCount(i, r - 1, "Value below min") = 0
                        /\ RowCount(i, r - 1, "Value above max") = 0

====
